---- MODULE Spec2Model ----
(***************************************************************************)
(* Model of pybinding/system.py: the System structural data model, the     *)
(* brute-force nearest-site query, the renderers plot_sites and            *)
(* plot_hoppings and the composition System.plot.                          *)
(*                                                                         *)
(* Site indices are 0-based as in the source: an array of N entries is a   *)
(* function with domain 0..N-1.  Coordinates are integers.  The plotting   *)
(* substrate (matplotlib axes) is external: the model records the calls    *)
(* each operation makes into it, in order (axlog).                         *)
(***************************************************************************)
EXTENDS Integers, Sequences, FiniteSets

VARIABLES
    positions,    \* System.impl.positions: <<x, y, z>>, three arrays
    sublattices,  \* System.impl.sublattices: array of sublattice ids
    hoppings,     \* System.impl.hoppings in COO form: sequence of <<row, col, hop_id>>
    boundaries,   \* System.impl.boundaries: sequence of [shift, hoppings]
    built,        \* the System as the structural builder constructed it
    arrays,       \* arrays of the caller's own, handed to the free renderers
    input,        \* the arguments the caller passes to the operations
    axname,       \* plt.gca().name: "rectilinear" (2D axes) or "3d"
    last,         \* the last operation: its name, its arguments, its outcome
    axlog,        \* the calls the last operation made into the plotting substrate
    calls         \* the renderer calls the last System.plot issued

vars == <<positions, sublattices, hoppings, boundaries, built, arrays, input, axname, last, axlog, calls>>

(***************************************************************************)
(* Bounds of the model.                                                    *)
(***************************************************************************)
MaxSites == 2
MaxBonds == 1
MaxBoundaries == 1

(***************************************************************************)
(* Arrays and vectors.                                                     *)
(***************************************************************************)
Size(a) == Cardinality(DOMAIN a)

Indices(n) == 0 .. (n - 1)

Arrays(n, S) == [Indices(n) -> S]

\* where a site may sit: the origin and its neighbours along x, y and z
Points == {<<0, 0, 0>>, <<1, 0, 0>>, <<0, 1, 0>>, <<0, 0, 1>>}

SubIds == 0 .. 1

HopIds == 0 .. 1

\* the three coordinate arrays of the sites placed at the points pts[0..n-1]
PositionsOf(pts) == << [i \in DOMAIN pts |-> pts[i][1]],
                       [i \in DOMAIN pts |-> pts[i][2]],
                       [i \in DOMAIN pts |-> pts[i][3]] >>

Neg(v) == [k \in DOMAIN v |-> 0 - v[k]]

Zero3 == <<0, 0, 0>>

\* System.num_sites
num_sites == Size(sublattices)

\* System.xyz: np.array(self.positions).T, one row <<x, y, z>> per site
xyz == [i \in DOMAIN positions[1] |-> <<positions[1][i], positions[2][i], positions[3][i]>>]

(***************************************************************************)
(* find_nearest, the numpy fallback.                                       *)
(***************************************************************************)
RECURSIVE SumSq(_, _, _)
SumSq(row, r, k) ==
    IF k = 0 THEN 0
    ELSE (row[k] - r[k]) * (row[k] - r[k]) + SumSq(row, r, k - 1)

\* np.linalg.norm(self.xyz[:, :len(r)] - r, axis=1).  The model keeps the
\* square of the norm: the square root is monotone, so the order of the
\* distances, which is all argmin reads, is the same.
Distance(r) == [i \in DOMAIN xyz |-> [inf |-> FALSE, d |-> SumSq(xyz[i], r, Len(r))]]

\* ma.array(distance, mask=...) as ma.argmin sees it: masked entries are
\* filled with the largest value of the type (+inf)
Filled(distance, mask) ==
    [i \in DOMAIN distance |-> IF mask[i] THEN [inf |-> TRUE, d |-> 0] ELSE distance[i]]

Less(a, b) == (~a.inf) /\ (b.inf \/ a.d < b.d)

LessOrEqual(a, b) == ~Less(b, a)

RECURSIVE ArgminScan(_, _, _)
ArgminScan(d, i, best) ==
    IF i >= Size(d) THEN best
    ELSE ArgminScan(d, i + 1, IF Less(d[i], d[best]) THEN i ELSE best)

RECURSIVE ArgminScanLast(_, _, _)
ArgminScanLast(d, i, best) ==
    IF i >= Size(d) THEN best
    ELSE ArgminScanLast(d, i + 1, IF LessOrEqual(d[i], d[best]) THEN i ELSE best)

\* argmin as a bug would have it: the last occurrence of the minimum
ArgminLast(d) == ArgminScanLast(d, 1, 0)

\* np.argmin / ma.argmin: the first occurrence of the minimum
Argmin(d) == ArgminScan(d, 1, 0)

\* System.find_nearest(position, at_sublattice), impl without find_nearest
find_nearest(position, at_sublattice) ==
    LET distance == Distance(position)
    IN  IF at_sublattice < 0
        THEN Argmin(distance)
        ELSE Argmin(Filled(distance,
                           [i \in DOMAIN sublattices |-> sublattices[i] # at_sublattice]))

\* query points: a site-like point, or its first two coordinates
Queries == Points \cup {<<p[1], p[2]>> : p \in Points}

Result(name, raised, value) ==
    [op |-> name, raised |-> raised, value |-> value,
     col |-> [kind |-> "none"], cmap |-> FALSE, idx |-> << >>]

FindNearest ==
    /\ input.op = "find_nearest"
    /\ last' = Result("find_nearest", "none", find_nearest(input.position, input.at_sublattice))
    /\ axlog' = << >>
    /\ calls' = << >>
    /\ UNCHANGED <<positions, sublattices, hoppings, boundaries, built, arrays, input, axname>>

(***************************************************************************)
(* The System as constructed.                                              *)
(***************************************************************************)
NoArrays == [positions |-> << << >>, << >>, << >> >>, data |-> << >>, hoppings |-> << >>]

NoOp == Result("init", "none", 0)

\* a call to come: the operation, and its arguments where the caller gives
\* them (the others keep their defaults)
Defaults == [op |-> "none", position |-> <<0, 0>>, at_sublattice |-> -1,
             radius |-> [scalar |-> TRUE, v |-> 1, a |-> << >>], width |-> 1,
             offset |-> <<0, 0, 0>>, boundary |-> FALSE, hasCmap |-> FALSE,
             rotate |-> <<0, 1, 2>>, boundary_color |-> TRUE]

NearestInputs ==
    {[Defaults EXCEPT !.op = "find_nearest", !.position = q, !.at_sublattice = f] :
        q \in Queries, f \in {-1} \cup SubIds}

SystemRecord == [positions |-> positions, sublattices |-> sublattices,
                 hoppings |-> hoppings, boundaries |-> boundaries]

\* a System of 1..MaxSites sites without bonds
InitNearest ==
    /\ \E n \in 1 .. MaxSites :
          /\ \E pts \in Arrays(n, Points) : positions = PositionsOf(pts)
          /\ sublattices \in Arrays(n, SubIds)
    /\ hoppings = << >>
    /\ boundaries = << >>
    /\ built = SystemRecord
    /\ arrays = NoArrays
    /\ input \in NearestInputs
    /\ axname = "rectilinear"
    /\ last = NoOp
    /\ axlog = << >>
    /\ calls = << >>

NextNearest == FindNearest

SpecNearest == InitNearest /\ [][NextNearest]_vars

(***************************************************************************)
(* The renderers.  A renderer's outcome is a record:                       *)
(*   returned  "None" (the early return) or "col" (the collection)         *)
(*   raised    "none", or the exception that ended the call                *)
(*   cmap      whether the call built a colormap with direct_cmap_norm     *)
(*   col       the collection the call built (NoCol when it built none)    *)
(*   idx       plot_sites in 2D: the drawing order                         *)
(*   log       the calls made into the axes, in order                      *)
(*   positions, data   the arrays that were passed in, as the call left    *)
(*                     them                                                *)
(***************************************************************************)
BlendFull == <<1, 1>>    \* blend = 1.0

BlendHalf == <<1, 2>>    \* blend = 0.5

RadiusScale3D == 8

NoCol == [kind |-> "none"]

Event(call, arg) == [call |-> call, arg |-> arg]

Take(v, nd) == [k \in 1 .. nd |-> v[k]]

VecAdd(p, o) == [k \in DOMAIN p |-> p[k] + o[k]]

VecSub(p, o) == [k \in DOMAIN p |-> p[k] - o[k]]

\* np.array(positions[:nd]).T: one row of nd coordinates per site
Rows(pos, nd) == [i \in DOMAIN pos[1] |-> [k \in 1 .. nd |-> pos[k][i]]]

SetMin(S) == CHOOSE m \in S : \A v \in S : m <= v

SetMax(S) == CHOOSE m \in S : \A v \in S : m >= v

\* the arrays passed in, after `np.array(positions[:n]).T + offset`: the sum is
\* a new array
AfterAdd(pos, offset) == pos

\* an array after the fancy-indexed read `a[idx]`: the result is a copy
AfterTakeInPlace(a, idx) == [k \in DOMAIN a |-> a[idx[k]]]

AfterTake(a, idx) == a

\* the segments plot_hoppings hands to the line collection
HoppingLinesShiftBoth(P, offset, hop, boundary) ==
    [k \in 1 .. Len(hop) |-> <<VecAdd(P[hop[k][1]], offset), VecAdd(P[hop[k][2]], offset)>>]

HoppingLines(P, offset, hop, boundary) ==
    IF ~boundary
    THEN LET pos == [i \in DOMAIN P |-> VecAdd(P[i], offset)]
         IN  [k \in 1 .. Len(hop) |-> <<pos[hop[k][1]], pos[hop[k][2]]>>]
    ELSE [k \in 1 .. Len(hop) |-> <<VecAdd(P[hop[k][1]], offset), P[hop[k][2]]>>]
         \o [k \in 1 .. Len(hop) |-> <<P[hop[k][1]], VecSub(P[hop[k][2]], offset)>>]

\* np.vstack((positions.min(axis=0), positions.max(axis=0))).T
HoppingMinMax(P, nd) ==
    [k \in 1 .. nd |-> << SetMin({P[i][k] : i \in DOMAIN P}),
                          SetMax({P[i][k] : i \in DOMAIN P}) >>]

Ndims(axn) == IF axn = "3d" THEN 3 ELSE 2

plot_hoppings(axn, pos, hop, width, offset0, boundary, blend) ==
    IF width = 0 \/ Len(hop) = 0
    THEN [returned |-> "None", raised |-> "none", cmap |-> FALSE, col |-> NoCol,
          idx |-> << >>, log |-> << >>, positions |-> pos, data |-> << >>]
    ELSE LET ndims  == Ndims(axn)
             offset == Take(offset0, ndims)
             P      == Rows(pos, ndims)
             col    == [kind |-> IF ndims = 2 THEN "LineCollection" ELSE "Line3DCollection",
                        segments |-> HoppingLines(P, offset, hop, boundary),
                        array |-> [k \in 1 .. Len(hop) |-> hop[k][3]],
                        lw |-> width, blend |-> blend]
         IN  [returned |-> "col", raised |-> "none", cmap |-> TRUE, col |-> col,
              idx |-> << >>,
              log |-> IF ndims = 2
                      THEN << Event("add_collection", col.kind), Event("autoscale_view", << >>) >>
                      ELSE << Event("add_collection3d", col.kind), Event("set_zmargin", << >>),
                              Event("auto_scale_xyz", HoppingMinMax(P, ndims)) >>,
              positions |-> AfterAdd(pos, offset0), data |-> << >>]

\* a radius is a scalar or an array with one entry per site
Scalar(r) == [scalar |-> TRUE, v |-> r, a |-> << >>]

PerSite(a) == [scalar |-> FALSE, v |-> 0, a |-> a]

\* np.all(radius == 0)
AllZero(radius) ==
    IF radius.scalar THEN radius.v = 0 ELSE \A i \in DOMAIN radius.a : radius.a[i] = 0

IndexPermutations(n) == {f \in [Indices(n) -> Indices(n)] : \A i, j \in Indices(n) : f[i] = f[j] => i = j}

\* z.argsort() with the default kind, quicksort, which is not a stable sort:
\* every permutation that puts z in ascending order is a possible result
argsort(z) ==
    {idx \in IndexPermutations(Size(z)) :
        \A k \in Indices(Size(z) - 1) : z[idx[k]] <= z[idx[k + 1]]}

\* The colormap of plot_sites: the caller's own, or one built by
\* pltutils.direct_cmap_norm(data, colors, blend).  The helper is outside this
\* file; for empty data it may build a colormap or raise, for other data it
\* builds one.
CmapOutcomes(data, hasCmap) ==
    IF hasCmap THEN {"given"}
    ELSE IF Size(data) = 0 THEN {"built", "raised"} ELSE {"built"}

\* the extent plot_sites folds into 3D axes: (v.min(), v.max()) for v in positions
SitesMinMax(pos) ==
    [k \in 1 .. 3 |-> << SetMin({pos[k][i] : i \in DOMAIN pos[k]}),
                         SetMax({pos[k][i] : i \in DOMAIN pos[k]}) >>]

\* plot_sites, with idx the result of the argsort of line 303 and cm the
\* outcome of the colormap step
plot_sites_sorted(axn, pos, data, radius, offset, blend, cm, idx) ==
    IF AllZero(radius)
    THEN [returned |-> "None", raised |-> "none", cmap |-> FALSE, col |-> NoCol,
          idx |-> << >>, log |-> << >>, positions |-> pos, data |-> data]
    ELSE IF cm = "raised"
    THEN [returned |-> "raise", raised |-> "direct_cmap_norm", cmap |-> TRUE, col |-> NoCol,
          idx |-> << >>, log |-> << >>, positions |-> pos, data |-> data]
    ELSE LET points == [i \in DOMAIN pos[1] |-> <<pos[1][i] + offset[1], pos[2][i] + offset[2]>>]
             after  == AfterAdd(pos, offset)
         IN  IF axn # "3d"
             THEN LET col == [kind |-> "CircleCollection",
                              radius |-> IF radius.scalar THEN radius
                                         ELSE PerSite([k \in DOMAIN idx |-> radius.a[idx[k]]]),
                              scale |-> 1,
                              offsets |-> [k \in DOMAIN idx |-> points[idx[k]]],
                              z |-> << >>,
                              array |-> [k \in DOMAIN idx |-> data[idx[k]]],
                              blend |-> blend]
                  IN  [returned |-> "col", raised |-> "none", cmap |-> cm = "built", col |-> col,
                       idx |-> idx,
                       log |-> << Event("add_collection", col.kind), Event("autoscale_view", << >>) >>,
                       positions |-> after, data |-> AfterTake(data, idx)]
             ELSE LET col == [kind |-> "Circle3DCollection",
                              radius |-> radius,
                              scale |-> RadiusScale3D,
                              offsets |-> points,
                              z |-> [i \in DOMAIN pos[3] |-> pos[3][i] + offset[3]],
                              array |-> data,
                              blend |-> blend]
                  IN  IF Size(pos[1]) = 0
                      THEN \* v.min() of an empty array raises, after add_collection
                           [returned |-> "raise", raised |-> "ValueError", cmap |-> cm = "built",
                            col |-> col, idx |-> << >>,
                            log |-> << Event("add_collection", col.kind) >>,
                            positions |-> after, data |-> data]
                      ELSE [returned |-> "col", raised |-> "none", cmap |-> cm = "built",
                            col |-> col, idx |-> << >>,
                            log |-> << Event("add_collection", col.kind),
                                       Event("auto_scale_xyz", SitesMinMax(pos)) >>,
                            positions |-> after, data |-> data]

\* the sort orders plot_sites may use: the argsort in 2D, none otherwise
SortOrders(axn, pos, radius) ==
    IF AllZero(radius) \/ axn = "3d" THEN {<< >>} ELSE argsort(pos[3])

\* plot_sites: the set of its possible outcomes
plot_sites(axn, pos, data, radius, offset, blend, hasCmap) ==
    {plot_sites_sorted(axn, pos, data, radius, offset, blend, cm, idx) :
        cm \in CmapOutcomes(data, hasCmap), idx \in SortOrders(axn, pos, radius)}

(***************************************************************************)
(* The renderers called as free functions on arrays of the caller.         *)
(***************************************************************************)
Offsets == {<<0, 0, 0>>, <<1, 0, 0>>, <<0, -1, 0>>, <<0, 0, 1>>}

Pairs(n) == Indices(n) \X Indices(n)

\* row-major order of the stored entries, as tocoo() lists them
Before(a, b) == a[1] < b[1] \/ (a[1] = b[1] /\ a[2] < b[2])

RECURSIVE BondSeqs(_, _)
BondSeqs(n, len) ==
    IF len = 0 THEN {<< >>}
    ELSE {Append(s, <<p[1], p[2], id>>) :
             s \in BondSeqs(n, len - 1), p \in Pairs(n), id \in HopIds}

Sorted(s) == \A k \in 1 .. (Len(s) - 1) : Before(s[k], s[k + 1])

\* sparse bond matrices over n sites with up to MaxBonds stored entries
BondMatrices(n) ==
    UNION {{s \in BondSeqs(n, len) : Sorted(s)} : len \in 0 .. MaxBonds}

RadiusChoices(n) == {Scalar(0), Scalar(1)} \cup {PerSite(a) : a \in Arrays(n, {0, 1})}

Outcome(name, res) ==
    [op |-> name, raised |-> res.raised, value |-> res.returned,
     col |-> res.col, cmap |-> res.cmap, idx |-> res.idx]

PlotHoppingsCall ==
    LET res == plot_hoppings(axname, arrays.positions, arrays.hoppings, input.width,
                             input.offset, input.boundary, BlendFull)
    IN  /\ input.op = "plot_hoppings"
        /\ last' = Outcome("plot_hoppings", res)
        /\ axlog' = res.log
        /\ calls' = << >>
        /\ UNCHANGED <<positions, sublattices, hoppings, boundaries, built, arrays, input, axname>>

PlotSitesCall ==
    /\ input.op = "plot_sites"
    /\ \E res \in plot_sites(axname, arrays.positions, arrays.data, input.radius, input.offset,
                             BlendFull, input.hasCmap) :
          /\ last' = Outcome("plot_sites", res)
          /\ axlog' = res.log
          /\ calls' = << >>
          /\ UNCHANGED <<positions, sublattices, hoppings, boundaries, built, arrays, input, axname>>

\* a plot_sites call to come: site arrays, a radius, an offset, a colormap or none
SitesInput(n) ==
    \E pts \in Arrays(n, Points), data \in Arrays(n, SubIds), radius \in RadiusChoices(n),
       offset \in Offsets, hasCmap \in BOOLEAN :
        /\ arrays = [positions |-> PositionsOf(pts), data |-> data, hoppings |-> << >>]
        /\ input = [Defaults EXCEPT !.op = "plot_sites", !.radius = radius,
                                     !.offset = offset, !.hasCmap = hasCmap]

\* a plot_hoppings call to come: positions, a bond matrix, a width, an offset, the flag
HoppingsInput(n) ==
    \E pts \in Arrays(n, Points), hop \in BondMatrices(n), width \in {0, 1},
       offset \in Offsets, boundary \in BOOLEAN :
        /\ arrays = [positions |-> PositionsOf(pts), data |-> [i \in Indices(n) |-> 0],
                     hoppings |-> hop]
        /\ input = [Defaults EXCEPT !.op = "plot_hoppings", !.width = width,
                                     !.offset = offset, !.boundary = boundary]

\* a one-site System, and a renderer call on arrays of the caller's own (of
\* 0..MaxSites sites), on 2D or on 3D axes
InitRender ==
    /\ positions = PositionsOf([i \in Indices(1) |-> Zero3])
    /\ sublattices = [i \in Indices(1) |-> 0]
    /\ hoppings = << >>
    /\ boundaries = << >>
    /\ built = SystemRecord
    /\ \E n \in 0 .. MaxSites : SitesInput(n) \/ HoppingsInput(n)
    /\ axname \in {"rectilinear", "3d"}
    /\ last = NoOp
    /\ axlog = << >>
    /\ calls = << >>

NextRender == PlotHoppingsCall \/ PlotSitesCall

SpecRender == InitRender /\ [][NextRender]_vars

(***************************************************************************)
(* System.plot and the operations on a System.                             *)
(***************************************************************************)
Rotations == {r \in (0 .. 2) \X (0 .. 2) \X (0 .. 2) : {r[1], r[2], r[3]} = 0 .. 2}

\* pos = tuple(pos[i] for i in rotate)
Rotated(pos, rotate) == [k \in 1 .. 3 |-> pos[rotate[k] + 1]]

\* the arrays of the System behind the rotated tuple
Unrotated(pos, rotate) == [a \in 1 .. 3 |-> pos[CHOOSE k \in 1 .. 3 : rotate[k] + 1 = a]]

HoppingsCallOf(hop, offset, boundary, blend, colors) ==
    [fn |-> "plot_hoppings", hop |-> hop, offset |-> offset, boundary |-> boundary,
     blend |-> blend, colors |-> colors]

SitesCallOf(offset, blend) ==
    [fn |-> "plot_sites", hop |-> << >>, offset |-> offset, boundary |-> FALSE,
     blend |-> blend, colors |-> "props"]

\* the renderer calls of one boundary, as a bug would order them: the
\* boundary's own bonds before its ghost copies
BoundaryCallsOwnFirst(hop, boundary, boundary_color) ==
    << HoppingsCallOf(boundary.hoppings, boundary.shift, TRUE, BlendFull,
                      IF boundary_color THEN "boundary_color" ELSE "props"),
       SitesCallOf(boundary.shift, BlendHalf),
       HoppingsCallOf(hop, boundary.shift, FALSE, BlendHalf, "props"),
       SitesCallOf(Neg(boundary.shift), BlendHalf),
       HoppingsCallOf(hop, Neg(boundary.shift), FALSE, BlendHalf, "props") >>

\* the renderer calls of one pass of the loop over self.boundaries
BoundaryCalls(hop, boundary, boundary_color) ==
    << SitesCallOf(boundary.shift, BlendHalf),
       HoppingsCallOf(hop, boundary.shift, FALSE, BlendHalf, "props"),
       SitesCallOf(Neg(boundary.shift), BlendHalf),
       HoppingsCallOf(hop, Neg(boundary.shift), FALSE, BlendHalf, "props"),
       HoppingsCallOf(boundary.hoppings, boundary.shift, TRUE, BlendFull,
                      IF boundary_color THEN "boundary_color" ELSE "props") >>

RECURSIVE PeriodicCalls(_, _, _, _)
PeriodicCalls(hop, bnds, k, boundary_color) ==
    IF k > Len(bnds) THEN << >>
    ELSE BoundaryCalls(hop, bnds[k], boundary_color)
         \o PeriodicCalls(hop, bnds, k + 1, boundary_color)

\* the renderer calls of System.plot, in program order
PlotCalls(hop, bnds, boundary_color) ==
    << HoppingsCallOf(hop, Zero3, FALSE, BlendFull, "props"),
       SitesCallOf(Zero3, BlendFull) >>
    \o PeriodicCalls(hop, bnds, 1, boundary_color)

\* one renderer call of System.plot on the arrays pos, sub
RunCall(c, pos, sub, radius, width, idx) ==
    IF c.fn = "plot_hoppings"
    THEN [plot_hoppings(axname, pos, c.hop, width, c.offset, c.boundary, c.blend)
             EXCEPT !.data = sub]
    ELSE plot_sites_sorted(axname, pos, sub, radius, c.offset, c.blend, "built", idx)

\* the calls from the k-th on: a call that raises ends the plot
RECURSIVE RunCalls(_, _, _, _, _, _, _, _)
RunCalls(planned, k, pos, sub, radius, width, idx, acc) ==
    IF k > Len(planned) \/ acc.raised # "none"
    THEN [acc EXCEPT !.positions = pos, !.data = sub]
    ELSE LET res == RunCall(planned[k], pos, sub, radius, width, idx)
         IN  RunCalls(planned, k + 1, res.positions, res.data, radius, width, idx,
                      [acc EXCEPT !.issued = Append(@, [call |-> planned[k],
                                                        returned |-> res.returned,
                                                        col |-> res.col, idx |-> res.idx]),
                                  !.log = @ \o res.log,
                                  !.raised = res.raised])

Cosmetics == << Event("set_min_axis_length", << >>), Event("despine", << >>),
                Event("add_margin", << >>) >>

AxesSetup == << Event("set_aspect", << >>), Event("set_xlabel", << >>),
                Event("set_ylabel", << >>) >>

\* System.plot(site_radius, hopping_width, boundary_color, rotate); within one
\* plot every plot_sites call sorts the same array, and gets the same order
Plot ==
    LET pos == Rotated(positions, input.rotate)
    IN  /\ input.op = "plot"
        /\ \E idx \in SortOrders(axname, pos, input.radius) :
              LET run == RunCalls(PlotCalls(hoppings, boundaries, input.boundary_color), 1,
                                  pos, sublattices, input.radius, input.width, idx,
                                  [issued |-> << >>, log |-> << >>, raised |-> "none",
                                   positions |-> pos, data |-> sublattices])
              IN  /\ last' = Result("plot", run.raised, 0)
                  /\ calls' = run.issued
                  /\ axlog' = AxesSetup \o run.log
                              \o (IF run.raised = "none" THEN Cosmetics ELSE << >>)
                  /\ positions' = Unrotated(run.positions, input.rotate)
                  /\ sublattices' = run.data
                  /\ UNCHANGED <<hoppings, boundaries, built, arrays, input, axname>>

\* plot_sites(system.positions, system.sublattices, radius, offset)
PlotSitesOfSystem ==
    /\ input.op = "plot_sites"
    /\ input.radius.scalar \/ DOMAIN input.radius.a = DOMAIN sublattices
    /\ \E res \in plot_sites(axname, positions, sublattices, input.radius, input.offset,
                             BlendFull, input.hasCmap) :
          /\ last' = Outcome("plot_sites", res)
          /\ axlog' = res.log
          /\ calls' = << >>
          /\ positions' = res.positions
          /\ sublattices' = res.data
          /\ UNCHANGED <<hoppings, boundaries, built, arrays, input, axname>>

\* plot_hoppings(system.positions, system.hoppings.tocoo(), width, offset, boundary)
PlotHoppingsOfSystem ==
    LET res == plot_hoppings(axname, positions, hoppings, input.width, input.offset,
                             input.boundary, BlendFull)
    IN  /\ input.op = "plot_hoppings"
        /\ last' = Outcome("plot_hoppings", res)
        /\ axlog' = res.log
        /\ calls' = << >>
        /\ positions' = res.positions
        /\ UNCHANGED <<sublattices, hoppings, boundaries, built, arrays, input, axname>>

\* plot_site_indices(system): annotate_box(i, (x[i], y[i])) for every site
PlotSiteIndices ==
    /\ input.op = "plot_site_indices"
    /\ last' = Result("plot_site_indices", "none", 0)
    /\ axlog' = [k \in 1 .. num_sites |->
                    Event("annotate_box", <<k - 1, <<positions[1][k - 1], positions[2][k - 1]>> >>)]
    /\ calls' = << >>
    /\ UNCHANGED <<positions, sublattices, hoppings, boundaries, built, arrays, input, axname>>

\* twice the anchor (pos[i] + pos[j] + shift[:2]) / 2 of a hopping's label
Anchor2(t, shift) == << xyz[t[1]][1] + xyz[t[2]][1] + shift[1],
                        xyz[t[1]][2] + xyz[t[2]][2] + shift[2] >>

RECURSIVE BoundaryLabels(_)
BoundaryLabels(k) ==
    IF k > Len(boundaries) THEN << >>
    ELSE LET b == boundaries[k]
             both(t) == << Event("annotate_box", <<t[3], Anchor2(t, b.shift)>>),
                           Event("annotate_box", <<t[3], Anchor2(t, Neg(b.shift))>>) >>
             RECURSIVE labels(_)
             labels(m) == IF m > Len(b.hoppings) THEN << >>
                          ELSE both(b.hoppings[m]) \o labels(m + 1)
         IN  labels(1) \o BoundaryLabels(k + 1)

\* plot_hopping_values(system, lattice), the lattice knowing every hopping id
PlotHoppingValues ==
    /\ input.op = "plot_hopping_values"
    /\ last' = Result("plot_hopping_values", "none", 0)
    /\ axlog' = [k \in 1 .. Len(hoppings) |->
                    Event("annotate_box", <<hoppings[k][3], Anchor2(hoppings[k], Zero3)>>)]
                \o BoundaryLabels(1)
    /\ calls' = << >>
    /\ UNCHANGED <<positions, sublattices, hoppings, boundaries, built, arrays, input, axname>>

(***************************************************************************)
(* The Systems and the arguments the model runs the operations on.         *)
(***************************************************************************)
Smaller(a, b) == IF a < b THEN a ELSE b

\* the shift of the k-th periodic boundary: along x, then y, then z
ShiftOf(k) == [c \in 1 .. 3 |-> IF c = ((k - 1) % 3) + 1 THEN 1 + ((k - 1) \div 3) ELSE 0]

\* bonds along the chain of sites: site k-1 to site k
ChainBonds(nb) == [k \in 1 .. nb |-> <<k - 1, k, (k - 1) % 2>>]

\* the bonds across a periodic boundary: none, or the last site to the first
CrossingBonds(n) == {<< >>, << <<n - 1, 0, 1>> >>}

BoundaryLists(n) ==
    UNION {[1 .. b -> CrossingBonds(n)] : b \in 0 .. MaxBoundaries}

PlotInputs ==
    {[Defaults EXCEPT !.op = "plot", !.rotate = r] : r \in Rotations}
    \cup {[Defaults EXCEPT !.op = "plot", !.radius = Scalar(rad), !.width = w,
                              !.boundary_color = c] :
             rad \in {0, 1}, w \in {0, 1}, c \in BOOLEAN}

RendererInputs(n) ==
    {[Defaults EXCEPT !.op = "plot_sites", !.radius = radius, !.offset = offset] :
        radius \in {Scalar(0), Scalar(1), PerSite([i \in Indices(n) |-> i + 1])},
        offset \in Offsets}
    \cup {[Defaults EXCEPT !.op = "plot_hoppings", !.width = w, !.offset = offset,
                              !.boundary = boundary] :
             w \in {0, 1}, offset \in Offsets, boundary \in BOOLEAN}

\* a System of 1..MaxSites sites at different points, on two alternating
\* sublattices, bonded along a chain, with up to MaxBoundaries periodic
\* boundaries, as the structural builder leaves it; 2D or 3D axes; the call
\* to come
Init ==
    /\ \E n \in 1 .. MaxSites :
          /\ \E pts \in Arrays(n, Points) :
                /\ \A i, j \in Indices(n) : pts[i] = pts[j] => i = j
                /\ positions = PositionsOf(pts)
          /\ sublattices = [i \in Indices(n) |-> i % 2]
          /\ \E nb \in 0 .. Smaller(MaxBonds, n - 1) : hoppings = ChainBonds(nb)
          /\ \E bl \in BoundaryLists(n) :
                boundaries = [k \in DOMAIN bl |-> [shift |-> ShiftOf(k), hoppings |-> bl[k]]]
          /\ input \in PlotInputs \cup RendererInputs(n) \cup NearestInputs
                       \cup {[Defaults EXCEPT !.op = "plot_site_indices"],
                             [Defaults EXCEPT !.op = "plot_hopping_values"]}
    /\ built = SystemRecord
    /\ arrays = NoArrays
    /\ axname \in {"rectilinear", "3d"}
    /\ last = NoOp
    /\ axlog = << >>
    /\ calls = << >>

Next ==
    \/ Plot
    \/ PlotSitesOfSystem
    \/ PlotHoppingsOfSystem
    \/ PlotSiteIndices
    \/ PlotHoppingValues
    \/ FindNearest

Spec == Init /\ [][Next]_vars

(***************************************************************************)
(* Claims about the renderers.                                             *)
(***************************************************************************)
\* site i of the caller's arrays, in the nd coordinates the axes draw
SiteAt(i, nd) == [k \in 1 .. nd |-> arrays.positions[k][i]]

StableOrder(z) ==
    CHOOSE idx \in IndexPermutations(Size(z)) :
        \A a, b \in DOMAIN z :
            a < b => \/ z[idx[a]] < z[idx[b]]
                     \/ (z[idx[a]] = z[idx[b]] /\ idx[a] < idx[b])

\* C5: in 2D mode plot_sites draws the sites in the stable ascending order of
\* the third coordinate it receives, and points, category data and per-site
\* radii are all reordered by that permutation.
C5_StableDepthSort ==
    (last.op = "plot_sites" /\ axname # "3d" /\ last.value = "col") =>
        LET idx == StableOrder(arrays.positions[3])
        IN  /\ last.idx = idx
            /\ \A k \in DOMAIN idx :
                  /\ last.col.offsets[k] = << arrays.positions[1][idx[k]] + input.offset[1],
                                              arrays.positions[2][idx[k]] + input.offset[2] >>
                  /\ last.col.array[k] = arrays.data[idx[k]]
                  /\ (~input.radius.scalar) => last.col.radius.a[k] = input.radius.a[idx[k]]

\* C6: for every zero-size drawable input (plot_hoppings with width 0 or with
\* no stored bonds, plot_sites with a radius that is uniformly 0, plot_sites
\* with zero sites and a nonzero radius) the renderer returns before colormap
\* construction, adds nothing to the axes and raises nothing.
C6_ZeroSizeDrawsNothing ==
    LET zeroRadius == IF input.radius.scalar THEN input.radius.v = 0
                      ELSE \A i \in DOMAIN input.radius.a : input.radius.a[i] = 0
        zeroSize ==
            \/ last.op = "plot_hoppings" /\ (input.width = 0 \/ Len(arrays.hoppings) = 0)
            \/ last.op = "plot_sites" /\ zeroRadius
            \/ last.op = "plot_sites" /\ Size(arrays.data) = 0 /\ ~zeroRadius
    IN  zeroSize => /\ last.value = "None"
                    /\ ~last.cmap
                    /\ axlog = << >>
                    /\ last.raised = "none"

\* C7: in 3D mode, after a plot_hoppings call that drew at least one segment,
\* the extent the call folded into the axes covers on every axis both
\* endpoints of every segment it drew.
C7_ExtentCoversSegments ==
    (last.op = "plot_hoppings" /\ axname = "3d" /\ last.value = "col") =>
        \E e \in 1 .. Len(axlog) :
            /\ axlog[e].call = "auto_scale_xyz"
            /\ \A k \in 1 .. Len(last.col.segments), end \in 1 .. 2, c \in 1 .. 3 :
                  /\ axlog[e].arg[c][1] <= last.col.segments[k][end][c]
                  /\ last.col.segments[k][end][c] <= axlog[e].arg[c][2]

\* C8: a call of plot_sites or plot_hoppings either completes or raises
\* before it has changed the axes.
C8_RaisesBeforeMutation ==
    (last.op \in {"plot_sites", "plot_hoppings"} /\ last.raised # "none") => axlog = << >>

(***************************************************************************)
(* Claims about System.plot and about the System.                          *)
(***************************************************************************)
IsSitesCall(c, offset, blend) ==
    /\ c.call.fn = "plot_sites"
    /\ c.call.offset = offset
    /\ c.call.blend = blend

IsHoppingsCall(c, hop, offset, boundary, blend) ==
    /\ c.call.fn = "plot_hoppings"
    /\ c.call.hop = hop
    /\ c.call.offset = offset
    /\ c.call.boundary = boundary
    /\ c.call.blend = blend

IsDraw(e) == e.call \in {"add_collection", "add_collection3d", "autoscale_view",
                         "set_zmargin", "auto_scale_xyz"}

C9_SystemUnchanged ==
    /\ positions = built.positions
    /\ sublattices = built.sublattices
    /\ hoppings = built.hoppings
    /\ boundaries = built.boundaries

\* the depth sort of a 2D plot_sites reordered the System's sites, drawn at an offset
C9_Witness ==
    /\ last.op = "plot_sites"
    /\ axname # "3d"
    /\ last.value = "col"
    /\ num_sites >= 2
    /\ last.idx[0] # 0
    /\ sublattices[last.idx[0]] # sublattices[0]
    /\ input.offset # <<0, 0, 0>>

\* C10: in System.plot, for every rotate that is a permutation of (0, 1, 2)
\* and every boundary, the ghost sites and ghost bonds are drawn at the
\* projection by rotate of (position + shift), respectively (position - shift):
\* component k of the applied offset is shift[rotate[k]].
C10_OffsetInRotatedAxes ==
    (last.op = "plot") =>
        LET nd == IF axname = "3d" THEN 3 ELSE 2
            \* site i moved by s, then projected by rotate
            proj(i, s, dims) ==
                [k \in 1 .. dims |-> positions[input.rotate[k] + 1][i] + s[input.rotate[k] + 1]]
        IN  \A m \in 1 .. Len(calls) :
                LET c == calls[m]
                    s == c.call.offset
                IN  /\ (c.call.fn = "plot_sites" /\ c.returned = "col") =>
                          \A k \in DOMAIN c.col.offsets :
                              c.col.offsets[k] = proj(IF nd = 2 THEN c.idx[k] ELSE k, s, 2)
                    /\ (c.call.fn = "plot_hoppings" /\ c.returned = "col" /\ ~c.call.boundary) =>
                          \A k \in 1 .. Len(c.call.hop) :
                              c.col.segments[k] = << proj(c.call.hop[k][1], s, nd),
                                                     proj(c.call.hop[k][2], s, nd) >>

(***************************************************************************)
(* Claims about find_nearest.                                              *)
(***************************************************************************)
\* squared Euclidean distance of site i to the query q, in q's coordinates
EuclidSq(i, q) ==
    LET sq(k) == (positions[k][i] - q[k]) * (positions[k][i] - q[k])
    IN  IF Len(q) = 2 THEN sq(1) + sq(2) ELSE sq(1) + sq(2) + sq(3)

Eligible(f) == {i \in DOMAIN sublattices : f < 0 \/ sublattices[i] = f}

\* C3: over a System with at least one eligible site, the fallback of
\* find_nearest returns an eligible site (its sublattice id equals the filter
\* when one is given) whose distance to the query is minimal over the eligible
\* sites, and among equidistant eligible sites the lowest index.
C3_NearestMinimalLowestIndex ==
    (last.op = "find_nearest" /\ Eligible(input.at_sublattice) # {}) =>
        LET q == input.position
            E == Eligible(input.at_sublattice)
        IN  /\ last.raised = "none"
            /\ last.value \in E
            /\ \A j \in E : /\ EuclidSq(last.value, q) <= EuclidSq(j, q)
                            /\ EuclidSq(j, q) = EuclidSq(last.value, q) => last.value <= j

\* a filtered query with two equidistant nearest eligible sites has been answered
C3_Witness ==
    /\ last.op = "find_nearest"
    /\ input.at_sublattice >= 0
    /\ LET q == input.position
           E == Eligible(input.at_sublattice)
       IN  \E i \in E, j \in E :
               /\ i < j
               /\ EuclidSq(i, q) = EuclidSq(j, q)
               /\ \A k \in E : EuclidSq(i, q) <= EuclidSq(k, q)
               /\ last.value = i

\* C4: find_nearest with a sublattice filter that matches zero sites signals
\* EmptyDomain and returns no site index.
C4_EmptyFilterSignalsEmptyDomain ==
    (/\ last.op = "find_nearest"
     /\ input.at_sublattice >= 0
     /\ Eligible(input.at_sublattice) = {}) =>
        last.raised = "EmptyDomain"

====
